---- MODULE Spec2Model ----
(***************************************************************************)
(* Polling / print coordination of the label printer service.              *)
(*                                                                         *)
(* PollingService (services/polling.ts), PrintQueueManager                 *)
(* (services/print-queue.ts).  Every `await` on real I/O (the remote       *)
(* fetch, one label's render+print round trip, a timer) is a suspension    *)
(* point; the code between two suspension points runs to completion on the *)
(* single event-loop thread and is one action here.                        *)
(***************************************************************************)
EXTENDS Integers, Naturals, Sequences, FiniteSets, TLC

\* ---------------------------------------------------------------- bounds
MaxTasks == 2      \* coroutines + pending timers alive at the same time
MaxErrors == 7     \* cap on consecutiveErrors explored
MaxCount == 2      \* largest accepted batch size the remote hands out
MaxCallers == 2    \* callers of printLabels at the same time
MaxLabels == 3     \* labels generated in one run of the print queue
MaxStamps == 2     \* distinct values of lastPollTime told apart

\* ------------------------------------------------------ program constants
DefaultPollInterval == <<5, 0, 0, 0>>
DefaultRetryDelay == <<5, 0, 0, 0>>
DefaultMaxRetries == <<5>>
BackoffCap == 5
MinBatch == 1
MaxBatch == 500
MaxWait == 60000
DrainSleep == 1000

VARIABLES
    env,                \* process.env: POLL_INTERVAL, RETRY_DELAY, MAX_RETRIES
    isRunning,          \* PollingService.state.isRunning
    isPrinting,         \* PollingService.state.isPrinting
    consecutiveErrors,  \* PollingService.state.consecutiveErrors
    lastPollTime,       \* PollingService.state.lastPollTime (0 = null, else
                        \* the ordinal of the poll that set it, saturating)
    shouldStop,         \* PollingService.shouldStop
    pollTimer,          \* PollingService.pollTimer (0 = null, else a handle)
    queuePrinting,      \* PrintQueueManager.isPrinting
    tasks,              \* event loop: pending timers and suspended coroutines
    ev,                 \* the last step taken and what it did
    calls,              \* printLabels calls: where each caller stands
    uuidSeq,            \* number of v7() identifiers handed out to labels
    printed,            \* the generator.print calls made, in order
    batchNo,            \* number of batches accepted so far
    qev,                \* the last print queue step and what it did
    mainPc,             \* index.ts: where main() and the process stand
    drain,              \* index.ts: shutdown()'s wait loop
    elapsed,            \* index.ts: Date.now() - startWait at the last wake-up
    printerCheck,       \* index.ts: how main()'s checkPrinter() call ended
    pair                \* two poll loops fed the same outcomes, under two
                        \* values of config.maxRetries

\* the print queue seen label by label
queueVars == <<calls, uuidSeq, printed, batchNo, qev>>

\* the process around the poll loop
mainVars == <<mainPc, drain, elapsed, printerCheck>>

\* the poll loop and the process, all but the print queue
pollVars == <<env, isRunning, isPrinting, consecutiveErrors, lastPollTime,
              shouldStop, pollTimer, tasks, ev, mainPc, drain, elapsed,
              printerCheck, pair>>

vars == <<env, isRunning, isPrinting, consecutiveErrors, lastPollTime,
          shouldStop, pollTimer, queuePrinting, tasks, ev,
          calls, uuidSeq, printed, batchNo, qev, mainPc, drain, elapsed,
          printerCheck, pair>>

\* ---------------------------------------------------------------- helpers
Unset == <<>>

Min(a, b) == IF a < b THEN a ELSE b

RECURSIVE Pow(_, _)
Pow(b, e) == IF e = 0 THEN 1 ELSE b * Pow(b, e - 1)

\* parseInt(s, 10) of a string of decimal digits
RECURSIVE parseInt(_)
parseInt(s) ==
    IF Len(s) = 0 THEN 0
    ELSE 10 * parseInt(SubSeq(s, 1, Len(s) - 1)) + s[Len(s)]

\* process.env.X || dflt
OrDefault(v, dflt) == IF v = Unset THEN dflt ELSE v

\* PollingService.config, as the constructor loads it
pollInterval == parseInt(OrDefault(env.POLL_INTERVAL, DefaultPollInterval))
retryDelay == parseInt(OrDefault(env.RETRY_DELAY, DefaultRetryDelay))
maxRetries == parseInt(OrDefault(env.MAX_RETRIES, DefaultMaxRetries))

\* ---------------------------------------------------------- event loop
Slots == 1..MaxTasks

NoTask == [pc |-> "none", delay |-> 0, errs |-> 0, count |-> 0, done |-> 0]
TimerTask(d, n) == [pc |-> "timer", delay |-> d, errs |-> n, count |-> 0, done |-> 0]
FetchTask == [pc |-> "fetch", delay |-> 0, errs |-> 0, count |-> 0, done |-> 0]
PrintTask(c, i) == [pc |-> "print", delay |-> 0, errs |-> 0, count |-> c, done |-> i]

Timers == {k \in Slots : tasks[k].pc = "timer"}
Fetching == {k \in Slots : tasks[k].pc = "fetch"}
Printing == {k \in Slots : tasks[k].pc = "print"}
Free == {k \in Slots : tasks[k].pc = "none"}
FreeSlot == CHOOSE k \in Free : \A j \in Free : k <= j

\* ------------------------------------------------------- remote responses
Counts == (-1..MaxCount) \cup {MaxBatch + 1}

Responses ==
    {[net |-> n, status |-> 0, parses |-> FALSE, type |-> "undefined", count |-> 0] :
        n \in {"transport", "abort"}}
    \cup {[net |-> "ok", status |-> 500, parses |-> TRUE, type |-> "undefined", count |-> 0]}
    \cup {[net |-> "ok", status |-> 200, parses |-> FALSE, type |-> "undefined", count |-> 0]}
    \cup {[net |-> "ok", status |-> 200, parses |-> TRUE, type |-> t, count |-> 0] :
        t \in {"undefined", "string"}}
    \cup {[net |-> "ok", status |-> 200, parses |-> TRUE, type |-> "number", count |-> c] :
        c \in Counts}

Thrown(e) == [thrown |-> TRUE, err |-> e, count |-> 0]
Returned(c) == [thrown |-> FALSE, err |-> "", count |-> c]

\* PollingService.fetchLabelCount: what the awaited call yields for a response
fetchLabelCount(r) ==
    IF r.net # "ok" THEN Thrown(r.net)
    ELSE IF ~(r.status \in 200..299) THEN Thrown("http")
    ELSE IF ~r.parses THEN Thrown("json")
    ELSE IF r.type # "number" THEN Thrown("invalid")
    ELSE Returned(r.count)

\* ------------------------------------------------------ PollingService
\* scheduleNextPoll: the guard
scheduleGuard(stop, running) == ~(stop \/ ~running)

backoffDelayUncapped(errors) ==
    IF errors > 0
    THEN retryDelay * Pow(2, errors - 1)
    ELSE pollInterval

\* scheduleNextPoll: the delay
backoffDelay(errors) ==
    IF errors > 0
    THEN retryDelay * Pow(2, Min(errors - 1, BackoffCap))
    ELSE pollInterval

pollSkipsNever(printing) == FALSE

\* poll: the skip test
pollSkips(printing) == printing

\* poll: `new Date()`, later than the value it replaces
newDate(last) == Min(last + 1, MaxStamps)

wantsPrintFromZero(count) == count >= 0

\* poll: `response.count > 0`
wantsPrint(count) == count > 0

handlePollErrorNoCount(errors) == errors

\* handlePollError: the counter
handlePollError(errors) == errors + 1

resetErrorsNever(errors) == errors

\* poll: "Reset error counter on success"
resetErrors(errors) == IF errors > 0 THEN 0 ELSE errors

printLabelsGuardBusyFirst(count, busy) ==
    IF busy THEN "busy"
    ELSE IF count < MinBatch \/ count > MaxBatch THEN "validation"
    ELSE "accept"

printLabelsGuardNoMax(count, busy) ==
    IF count < MinBatch THEN "validation"
    ELSE IF busy THEN "busy"
    ELSE "accept"

printLabelsGuardNoBusy(count, busy) ==
    IF count < MinBatch \/ count > MaxBatch THEN "validation" ELSE "accept"

\* PrintQueueManager.printLabels: the two guards
printLabelsGuard(count, busy) ==
    IF count < MinBatch \/ count > MaxBatch THEN "validation"
    ELSE IF busy THEN "busy"
    ELSE "accept"

printCatchesNothing(err) == FALSE

\* handlePrintRequest: `catch (error)` has no filter either; what it catches
\* does not reach poll's catch
printCatches(err) == TRUE

pollCatchesNetworkOnly(err) == err \in {"transport", "abort"}

\* ------------------------------------------------- PrintQueueManager
Callers == 1..MaxCallers

\* what randomString(8) can return, cut down to two codes
HumanIds == {"RR4HA3W8", "7KQ2ZD9M"}

gbtidFromHumanIdOnly(seq, humanId) == [uuid |-> 0, humanId |-> humanId]

\* printSingleLabel: `gbtid://${uuid}:${humanId}` with uuid = v7(), the
\* time-ordered identifier after seq earlier ones
gbtid(seq, humanId) == [uuid |-> seq + 1, humanId |-> humanId]

\* what generator.print can throw: Error objects by message, and a non-Error
PrintErrors ==
    {[isError |-> TRUE, stage |-> "render", message |-> <<"ENOENT", "no", "such", "file">>],
     [isError |-> TRUE, stage |-> "transport", message |-> <<"No", "Brother", "printer", "detected">>],
     [isError |-> TRUE, stage |-> "transport", message |-> <<"printer", "offline">>],
     [isError |-> TRUE, stage |-> "transport", message |-> <<"LIBUSB", "ERROR", "IO">>],
     [isError |-> FALSE, stage |-> "render", message |-> <<"printer">>]}

\* String.prototype.includes on a message kept word by word
includes(message, word) == \E i \in DOMAIN message : message[i] = word

NoError == [cause |-> <<>>, label |-> 0, total |-> 0]

\* printSingleLabel: the catch block; label = 0 when the error thrown on
\* carries no label index
rethrow(error, current, total) ==
    IF error.isError /\ (includes(error.message, "printer")
                          \/ includes(error.message, "Brother"))
    THEN [cause |-> error.message, label |-> current, total |-> total]
    ELSE [cause |-> error.message, label |-> 0, total |-> 0]

Idle == [pc |-> "idle", count |-> 0, current |-> 0, batch |-> 0]
InLabel(n, i, b) == [pc |-> "label", count |-> n, current |-> i, batch |-> b]

QueueEvent(op, c, n, result) ==
    [op |-> op, caller |-> c, count |-> n, result |-> result,
     busyBefore |-> queuePrinting, printedBefore |-> Len(printed),
     failedLabel |-> 0, error |-> NoError]

\* one generator.print call as the log keeps it
Printed(b, i, id) == [batch |-> b, label |-> i, id |-> id]

\* poll: `catch (error)` has no filter, it catches whatever the try block throws
pollCatches(err) == TRUE

Event(op, poll, sched, before, called) ==
    [op |-> op, poll |-> poll, sched |-> sched, errsBefore |-> before,
     printCalled |-> called, err |-> "", count |-> 0, attempted |-> 0]

\* scheduleNextPoll(), run by the coroutine in slot k when its poll() has
\* returned; stop, running and errors are the values of the fields then.
scheduleNextPoll(k, stop, running, errors) ==
    IF scheduleGuard(stop, running)
    THEN /\ tasks' = [tasks EXCEPT ![k] = TimerTask(backoffDelay(errors), errors)]
         /\ pollTimer' = k
    ELSE /\ tasks' = [tasks EXCEPT ![k] = NoTask]
         /\ pollTimer' = pollTimer

\* the delay of the tick that the step has scheduled in slot k, 0 if none
Scheduled(k) == IF tasks'[k].pc = "timer" THEN tasks'[k].delay ELSE 0

\* `await this.poll(); this.scheduleNextPoll()` up to the first suspension:
\* the body shared by start() and by the timer callback.
pollBegin(k, op, stop, running) ==
    IF pollSkips(isPrinting)
    THEN /\ scheduleNextPoll(k, stop, running, consecutiveErrors)
         /\ lastPollTime' = lastPollTime
         /\ ev' = Event(op, "skipped", Scheduled(k),
                        consecutiveErrors, FALSE)
    ELSE /\ lastPollTime' = newDate(lastPollTime)
         /\ tasks' = [tasks EXCEPT ![k] = FetchTask]
         /\ pollTimer' = pollTimer
         /\ ev' = Event(op, "issued", 0, consecutiveErrors, FALSE)

\* ----------------------------------------------------------------- Init
\* the environments explored: nothing configured, and a .env that sets all three
Environments ==
    {[POLL_INTERVAL |-> Unset, RETRY_DELAY |-> Unset, MAX_RETRIES |-> Unset],
     [POLL_INTERVAL |-> <<1, 5, 0, 0, 0>>, RETRY_DELAY |-> <<1, 0, 0, 0>>,
      MAX_RETRIES |-> <<2>>]}

InitService ==
    /\ env \in Environments
    /\ isRunning = FALSE
    /\ isPrinting = FALSE
    /\ consecutiveErrors = 0
    /\ lastPollTime = 0
    /\ shouldStop = FALSE
    /\ pollTimer = 0
    /\ queuePrinting = FALSE
    /\ tasks = [k \in Slots |-> NoTask]
    /\ ev = Event("init", "none", 0, 0, FALSE)
    /\ calls = [c \in Callers |-> Idle]
    /\ uuidSeq = 0
    /\ printed = <<>>
    /\ batchNo = 0
    /\ mainPc = "init"
    /\ drain = "none"
    /\ printerCheck = "none"
    /\ elapsed = 0
    /\ qev = [op |-> "init", caller |-> 0, count |-> 0, result |-> "",
              busyBefore |-> FALSE, printedBefore |-> 0, failedLabel |-> 0,
              error |-> NoError]

\* ------------------------------------------- two runs, two maxRetries
\* the values of config.maxRetries given to the second run
OtherRetries == 1..(MaxErrors + 1)

\* a poll loop before its first poll
FirstCycle == [errors |-> 0, delay |-> 0, dispatched |-> 0, outcome |-> "",
               warned |-> FALSE]

PairStart(other) == [a |-> FirstCycle, b |-> FirstCycle, other |-> other]

\* a loop that stops backing off once the threshold is reached
pollCycleGivesUp(st, retries, r) ==
    IF fetchLabelCount(r).thrown
    THEN LET n == IF handlePollError(st.errors) >= retries
                  THEN 0 ELSE handlePollError(st.errors)
         IN [errors |-> n, delay |-> backoffDelay(n), dispatched |-> 0,
             outcome |-> fetchLabelCount(r).err,
             warned |-> handlePollError(st.errors) >= retries]
    ELSE [errors |-> resetErrors(st.errors),
          delay |-> backoffDelay(resetErrors(st.errors)),
          dispatched |-> IF wantsPrint(fetchLabelCount(r).count)
                         THEN fetchLabelCount(r).count ELSE 0,
          outcome |-> "ok", warned |-> FALSE]

\* one poll of a running service and the tick armed after it, as a function
\* of the loop's state, of config.maxRetries and of the remote's response:
\* the counter, the delay of the next tick, the count handed to
\* printCallback, and whether "Max retries exceeded" was logged
pollCycle(st, retries, r) ==
    IF fetchLabelCount(r).thrown
    THEN LET n == handlePollError(st.errors)
         IN [errors |-> n, delay |-> backoffDelay(n), dispatched |-> 0,
             outcome |-> fetchLabelCount(r).err, warned |-> n >= retries]
    ELSE [errors |-> resetErrors(st.errors),
          delay |-> backoffDelay(resetErrors(st.errors)),
          dispatched |-> IF wantsPrint(fetchLabelCount(r).count)
                         THEN fetchLabelCount(r).count ELSE 0,
          outcome |-> "ok", warned |-> FALSE]

\* one service, one configuration
Init ==
    /\ InitService
    /\ pair = PairStart(maxRetries)

\* two services whose configurations differ in maxRetries only
InitPair ==
    /\ InitService
    /\ pair \in {PairStart(n) : n \in OtherRetries \ {maxRetries}}

\* -------------------------------------------------------------- actions
\* a start() that forgets to clear the stop flag
startKeepsStopFlag ==
    /\ ~isRunning
    /\ Free # {}
    /\ shouldStop' = shouldStop
    /\ isRunning' = TRUE
    /\ pollBegin(FreeSlot, "start", shouldStop, TRUE)
    /\ UNCHANGED <<pair, queueVars, env, isPrinting, consecutiveErrors, queuePrinting>>

\* start() on a service that is not running, up to its first suspension
start ==
    /\ ~isRunning
    /\ Free # {}
    /\ shouldStop' = FALSE
    /\ isRunning' = TRUE
    /\ pollBegin(FreeSlot, "start", FALSE, TRUE)
    /\ UNCHANGED <<pair, queueVars, env, isPrinting, consecutiveErrors, queuePrinting>>

\* start() called by any owner of the service
Start == start /\ UNCHANGED mainVars

\* a start() without the isRunning guard
StartAgainPolls ==
    /\ isRunning
    /\ Free # {}
    /\ shouldStop' = FALSE
    /\ isRunning' = TRUE
    /\ pollBegin(FreeSlot, "startAgain", FALSE, TRUE)
    /\ UNCHANGED <<mainVars, pair, queueVars, env, isPrinting, consecutiveErrors,
                   queuePrinting>>

\* start() on a running service: "Already running"
StartAgain ==
    /\ isRunning
    /\ ev' = Event("startAgain", "none", 0, consecutiveErrors, FALSE)
    /\ UNCHANGED <<mainVars, pair, queueVars, env, isRunning, isPrinting, consecutiveErrors, lastPollTime,
                   shouldStop, pollTimer, queuePrinting, tasks>>

\* stop()
stop ==
    /\ shouldStop' = TRUE
    /\ isRunning' = FALSE
    /\ IF pollTimer # 0
       THEN /\ tasks' = [tasks EXCEPT ![pollTimer] =
                            IF @.pc = "timer" THEN NoTask ELSE @]
            /\ pollTimer' = 0
       ELSE UNCHANGED <<tasks, pollTimer>>
    /\ ev' = Event("stop", "none", 0, consecutiveErrors, FALSE)
    /\ UNCHANGED <<pair, queueVars, env, isPrinting, consecutiveErrors, lastPollTime, queuePrinting>>

\* a stop() that also drops the suspended coroutines
StopAborting ==
    /\ shouldStop' = TRUE
    /\ isRunning' = FALSE
    /\ tasks' = [k \in Slots |-> NoTask]
    /\ pollTimer' = 0
    /\ isPrinting' = FALSE
    /\ queuePrinting' = FALSE
    /\ ev' = Event("stop", "none", 0, consecutiveErrors, FALSE)
    /\ UNCHANGED <<mainVars, pair, queueVars, env, consecutiveErrors, lastPollTime>>

\* stop() called by any owner of the service
Stop == stop /\ UNCHANGED mainVars

\* the setTimeout callback of scheduleNextPoll fires
Tick(k) ==
    /\ tasks[k].pc = "timer"
    /\ pollBegin(k, "tick", shouldStop, isRunning)
    /\ UNCHANGED <<mainVars, pair, queueVars, env, isRunning, isPrinting, consecutiveErrors, shouldStop,
                   queuePrinting>>

\* the fetch of the coroutine in slot k fails: poll's catch, then scheduleNextPoll.
\* An error that poll did not catch would reject the coroutine's promise and
\* scheduleNextPoll would not be reached.
FetchFail(k, r) ==
    /\ tasks[k].pc = "fetch"
    /\ fetchLabelCount(r).thrown
    /\ consecutiveErrors < MaxErrors
    /\ IF pollCatches(fetchLabelCount(r).err)
       THEN /\ consecutiveErrors' = handlePollError(consecutiveErrors)
            /\ scheduleNextPoll(k, shouldStop, isRunning, consecutiveErrors')
            /\ ev' = [Event("fetchFail", "fail",
                             Scheduled(k),
                             consecutiveErrors, FALSE)
                          EXCEPT !.err = fetchLabelCount(r).err]
       ELSE /\ consecutiveErrors' = consecutiveErrors
            /\ tasks' = [tasks EXCEPT ![k] = NoTask]
            /\ pollTimer' = pollTimer
            /\ ev' = [Event("fetchFail", "threw", 0, consecutiveErrors, FALSE)
                          EXCEPT !.err = fetchLabelCount(r).err]
    /\ UNCHANGED <<mainVars, pair, queueVars, env, isRunning, isPrinting, lastPollTime, shouldStop, queuePrinting>>

\* the response r carries the count the remote handed out to the request of
\* slot k, when the remote has answered it (count 0: not answered yet)
Delivers(k, r) == tasks[k].count = 0 \/ r.count = tasks[k].count

\* the fetch returns a count <= 0: "No labels to print"
FetchNone(k, r) ==
    /\ tasks[k].pc = "fetch"
    /\ Delivers(k, r)
    /\ ~fetchLabelCount(r).thrown
    /\ ~wantsPrint(fetchLabelCount(r).count)
    /\ consecutiveErrors' = resetErrors(consecutiveErrors)
    /\ scheduleNextPoll(k, shouldStop, isRunning, consecutiveErrors')
    /\ ev' = [Event("fetchNone", "ok", Scheduled(k), consecutiveErrors, FALSE)
                  EXCEPT !.count = fetchLabelCount(r).count]
    /\ UNCHANGED <<mainVars, pair, queueVars, env, isRunning, isPrinting, lastPollTime, shouldStop, queuePrinting>>

\* the fetch returns count > 0 and printLabels rejects the call: handlePrintRequest
\* sets isPrinting, catches the rejection and clears isPrinting in its finally
FetchRejected(k, r) ==
    /\ tasks[k].pc = "fetch"
    /\ Delivers(k, r)
    /\ ~fetchLabelCount(r).thrown
    /\ wantsPrint(fetchLabelCount(r).count)
    /\ printLabelsGuard(fetchLabelCount(r).count, queuePrinting) # "accept"
    /\ isPrinting' = FALSE
    /\ LET caught == printCatches(printLabelsGuard(fetchLabelCount(r).count, queuePrinting))
       IN /\ consecutiveErrors' = IF caught THEN resetErrors(consecutiveErrors)
                                  ELSE handlePollError(consecutiveErrors)
          /\ scheduleNextPoll(k, shouldStop, isRunning, consecutiveErrors')
          /\ ev' = [Event("fetchRejected", IF caught THEN "ok" ELSE "fail",
                           Scheduled(k), consecutiveErrors, TRUE)
                        EXCEPT !.count = fetchLabelCount(r).count,
                               !.err = printLabelsGuard(fetchLabelCount(r).count,
                                                        queuePrinting)]
    /\ UNCHANGED <<mainVars, pair, queueVars, env, isRunning, lastPollTime, shouldStop, queuePrinting>>

\* the fetch returns count > 0 and printLabels accepts: the batch starts and
\* the coroutine suspends on the first label
FetchDispatch(k, r) ==
    /\ tasks[k].pc = "fetch"
    /\ Delivers(k, r)
    /\ ~fetchLabelCount(r).thrown
    /\ wantsPrint(fetchLabelCount(r).count)
    /\ printLabelsGuard(fetchLabelCount(r).count, queuePrinting) = "accept"
    /\ isPrinting' = TRUE
    /\ queuePrinting' = TRUE
    /\ tasks' = [tasks EXCEPT ![k] = PrintTask(fetchLabelCount(r).count, 0)]
    /\ ev' = [Event("fetchDispatch", "dispatch", 0, consecutiveErrors, TRUE)
                  EXCEPT !.count = fetchLabelCount(r).count]
    /\ UNCHANGED <<mainVars, pair, queueVars, env, isRunning, consecutiveErrors, lastPollTime, shouldStop,
                   pollTimer>>

\* a label that is not the last of its batch is printed
LabelPrinted(k) ==
    /\ tasks[k].pc = "print"
    /\ tasks[k].done + 1 < tasks[k].count
    /\ tasks' = [tasks EXCEPT ![k] = PrintTask(@.count, @.done + 1)]
    /\ ev' = Event("labelPrinted", "none", 0, consecutiveErrors, FALSE)
    /\ UNCHANGED <<mainVars, pair, queueVars, env, isRunning, isPrinting, consecutiveErrors, lastPollTime,
                   shouldStop, pollTimer, queuePrinting>>

\* a loop that logs the failed label and goes on with the next one
BatchEndSkipsFailed(k, ok) ==
    /\ tasks[k].pc = "print"
    /\ ~ok
    /\ tasks[k].done + 1 < tasks[k].count
    /\ tasks' = [tasks EXCEPT ![k] = PrintTask(@.count, @.done + 1)]
    /\ ev' = [Event("batchFailed", "ok", 0, consecutiveErrors, FALSE)
                  EXCEPT !.count = tasks[k].count,
                         !.attempted = tasks[k].done + 1,
                         !.err = "label"]
    /\ UNCHANGED <<mainVars, pair, queueVars, env, isRunning, isPrinting, consecutiveErrors, lastPollTime,
                   shouldStop, pollTimer, queuePrinting>>

\* the batch ends: its last label is printed (ok) or the current label fails.
\* printLabels' finally, handlePrintRequest's finally, the rest of poll, then
\* scheduleNextPoll.
BatchEnd(k, ok) ==
    /\ tasks[k].pc = "print"
    /\ ok => tasks[k].done + 1 = tasks[k].count
    /\ queuePrinting' = FALSE
    /\ isPrinting' = FALSE
    /\ LET caught == ok \/ printCatches("label")
       IN /\ consecutiveErrors' = IF caught THEN resetErrors(consecutiveErrors)
                                  ELSE handlePollError(consecutiveErrors)
          /\ scheduleNextPoll(k, shouldStop, isRunning, consecutiveErrors')
          /\ ev' = [Event(IF ok THEN "batchDone" ELSE "batchFailed",
                           IF caught THEN "ok" ELSE "fail",
                           Scheduled(k), consecutiveErrors, FALSE)
                        EXCEPT !.count = tasks[k].count,
                               !.attempted = tasks[k].done + 1,
                               !.err = IF ok THEN "" ELSE "label"]
    /\ UNCHANGED <<mainVars, pair, queueVars, env, isRunning, lastPollTime, shouldStop>>

Next ==
    \/ Start
    \/ StartAgain
    \/ Stop
    \/ \E k \in Slots : Tick(k)
    \/ \E k \in Slots, r \in Responses : FetchFail(k, r)
    \/ \E k \in Slots, r \in Responses : FetchNone(k, r)
    \/ \E k \in Slots, r \in Responses : FetchRejected(k, r)
    \/ \E k \in Slots, r \in Responses : FetchDispatch(k, r)
    \/ \E k \in Slots : LabelPrinted(k)
    \/ \E k \in Slots, ok \in BOOLEAN : BatchEnd(k, ok)

Spec == Init /\ [][Next]_vars

\* The service once started and never stopped.  The event loop fires a due
\* timer, the fetch returns (response, error or the 10 s abort) and a label's
\* round trip returns: weak fairness on those three.
NextRunning ==
    \/ Start
    \/ StartAgain
    \/ \E k \in Slots : Tick(k)
    \/ \E k \in Slots, r \in Responses : FetchFail(k, r)
    \/ \E k \in Slots, r \in Responses : FetchNone(k, r)
    \/ \E k \in Slots, r \in Responses : FetchRejected(k, r)
    \/ \E k \in Slots, r \in Responses : FetchDispatch(k, r)
    \/ \E k \in Slots : LabelPrinted(k)
    \/ \E k \in Slots, ok \in BOOLEAN : BatchEnd(k, ok)

FetchReturns ==
    \E k \in Slots, r \in Responses :
        FetchFail(k, r) \/ FetchNone(k, r) \/ FetchRejected(k, r) \/ FetchDispatch(k, r)

LabelReturns ==
    \E k \in Slots : LabelPrinted(k) \/ \E ok \in BOOLEAN : BatchEnd(k, ok)

SpecRunning ==
    /\ Init
    /\ [][NextRunning]_vars
    /\ WF_vars(\E k \in Slots : Tick(k))
    /\ WF_vars(FetchReturns)
    /\ WF_vars(LabelReturns)

\* ------------------------------------------------ the print queue alone
\* printLabels(n) called by c and refused by one of its two guards
PrintLabelsRejected(c, n) ==
    /\ calls[c].pc = "idle"
    /\ printLabelsGuard(n, queuePrinting) # "accept"
    /\ qev' = QueueEvent("printLabels", c, n, printLabelsGuard(n, queuePrinting))
    /\ UNCHANGED <<pollVars, queuePrinting, calls, uuidSeq, printed, batchNo>>

\* printLabels(n) called by c and accepted: the flag is set and the first
\* label is generated and handed to generator.print
PrintLabelsAccepted(c, n, h) ==
    /\ calls[c].pc = "idle"
    /\ printLabelsGuard(n, queuePrinting) = "accept"
    /\ uuidSeq + n <= MaxLabels
    /\ queuePrinting' = TRUE
    /\ batchNo' = batchNo + 1
    /\ uuidSeq' = uuidSeq + 1
    /\ printed' = Append(printed, Printed(batchNo', 1, gbtid(uuidSeq, h)))
    /\ calls' = [calls EXCEPT ![c] = InLabel(n, 1, batchNo')]
    /\ qev' = QueueEvent("printLabels", c, n, "accept")
    /\ UNCHANGED pollVars

\* generator.print returns for a label that is not the last: the loop
\* generates the next one
PrintSingleLabelNext(c, h) ==
    /\ calls[c].pc = "label"
    /\ calls[c].current < calls[c].count
    /\ uuidSeq' = uuidSeq + 1
    /\ printed' = Append(printed,
                         Printed(calls[c].batch, calls[c].current + 1, gbtid(uuidSeq, h)))
    /\ calls' = [calls EXCEPT ![c] = InLabel(@.count, @.current + 1, @.batch)]
    /\ qev' = QueueEvent("label", c, calls[c].count, "")
    /\ UNCHANGED <<pollVars, queuePrinting, batchNo>>

\* generator.print returns for the last label: the batch completes
PrintLabelsDone(c) ==
    /\ calls[c].pc = "label"
    /\ calls[c].current = calls[c].count
    /\ queuePrinting' = FALSE
    /\ calls' = [calls EXCEPT ![c] = [Idle EXCEPT !.batch = calls[c].batch]]
    /\ qev' = QueueEvent("done", c, calls[c].count, "ok")
    /\ UNCHANGED <<pollVars, uuidSeq, printed, batchNo>>

\* a printLabels that resets its flag on success only
PrintLabelsFailedKeepsFlag(c, e) ==
    /\ calls[c].pc = "label"
    /\ queuePrinting' = queuePrinting
    /\ calls' = [calls EXCEPT ![c] = [Idle EXCEPT !.batch = calls[c].batch]]
    /\ qev' = [QueueEvent("done", c, calls[c].count, "failed")
                   EXCEPT !.failedLabel = calls[c].current,
                          !.error = rethrow(e, calls[c].current, calls[c].count)]
    /\ UNCHANGED <<pollVars, uuidSeq, printed, batchNo>>

\* generator.print throws for the current label: printSingleLabel's catch,
\* printLabels' catch and finally
PrintLabelsFailed(c, e) ==
    /\ calls[c].pc = "label"
    /\ queuePrinting' = FALSE
    /\ calls' = [calls EXCEPT ![c] = [Idle EXCEPT !.batch = calls[c].batch]]
    /\ qev' = [QueueEvent("done", c, calls[c].count, "failed")
                   EXCEPT !.failedLabel = calls[c].current,
                          !.error = rethrow(e, calls[c].current, calls[c].count)]
    /\ UNCHANGED <<pollVars, uuidSeq, printed, batchNo>>

NextQueue ==
    \/ \E c \in Callers, n \in Counts : PrintLabelsRejected(c, n)
    \/ \E c \in Callers, n \in Counts, h \in HumanIds : PrintLabelsAccepted(c, n, h)
    \/ \E c \in Callers, h \in HumanIds : PrintSingleLabelNext(c, h)
    \/ \E c \in Callers : PrintLabelsDone(c)
    \/ \E c \in Callers, e \in PrintErrors : PrintLabelsFailed(c, e)

SpecQueue == Init /\ [][NextQueue]_vars

\* --------------------------------------------------- the process (index.ts)
Alive == mainPc # "exited"

\* how long one `setTimeout(resolve, 1000)` of the wait loop can take
SleepTakes == {DrainSleep, MaxWait - DrainSleep}

drainContinuesNever(printing, waited) == FALSE

\* shutdown: the condition of the wait loop
drainContinues(printing, waited) == printing /\ waited < MaxWait

\* main() up to `await printQueue.checkPrinter()`; the signal handlers are set
MainBegin ==
    /\ mainPc = "init"
    /\ mainPc' = "check"
    /\ UNCHANGED <<env, isRunning, isPrinting, consecutiveErrors, lastPollTime,
                   shouldStop, pollTimer, queuePrinting, tasks, ev, queueVars,
                   drain, elapsed, printerCheck, pair>>

\* PrintQueueManager.checkPrinter: the status query's failure is rethrown
checkPrinter(statusOk) == IF statusOk THEN "returned" ELSE "thrown"

afterCheckFatal(outcome) == IF outcome = "thrown" THEN "exit" ELSE "start"

\* main: what follows the try/catch around checkPrinter()
afterCheck(outcome) == "start"

\* checkPrinter() returns or throws; main() goes on to pollingService.start().
\* An error that left main() would end the process in main().catch.
MainStart(printerOk) ==
    /\ mainPc = "check"
    /\ printerCheck' = checkPrinter(printerOk)
    /\ IF afterCheck(checkPrinter(printerOk)) = "start"
       THEN /\ mainPc' = "started"
            /\ start
       ELSE /\ mainPc' = "exited"
            /\ UNCHANGED <<env, isRunning, isPrinting, consecutiveErrors,
                           lastPollTime, shouldStop, pollTimer, queuePrinting,
                           tasks, ev, queueVars, pair>>
    /\ UNCHANGED <<drain, elapsed>>

\* SIGINT / SIGTERM: shutdown() up to its first suspension or to process.exit.
\* A signal during the wait starts a second wait loop that cannot end before
\* the first; only the first is kept.
Signal ==
    /\ mainPc \in {"check", "started"}
    /\ stop
    /\ IF isPrinting
       THEN /\ mainPc' = mainPc
            /\ printerCheck' = printerCheck
            /\ drain' = "waiting"
            /\ elapsed' = IF drain = "waiting" THEN elapsed ELSE 0
       ELSE /\ mainPc' = "exited"
            /\ UNCHANGED <<drain, elapsed, printerCheck>>

\* the wait loop wakes up: it goes on sleeping or the process exits
DrainWake(took) ==
    /\ Alive
    /\ drain = "waiting"
    /\ elapsed' = elapsed + took
    /\ mainPc' = IF drainContinues(isPrinting, elapsed') THEN mainPc ELSE "exited"
    /\ UNCHANGED <<env, isRunning, isPrinting, consecutiveErrors, lastPollTime,
                   shouldStop, pollTimer, queuePrinting, tasks, ev, queueVars, drain,
                   printerCheck, pair>>

\* the remote receives the request of slot k and hands out a positive count,
\* resetting its own counter; the response is then on its way
RemoteAnswers(k, c) ==
    /\ Alive
    /\ tasks[k].pc = "fetch"
    /\ tasks[k].count = 0
    /\ c \in MinBatch..MaxBatch
    /\ tasks' = [tasks EXCEPT ![k].count = c]
    /\ UNCHANGED <<env, isRunning, isPrinting, consecutiveErrors, lastPollTime,
                   shouldStop, pollTimer, queuePrinting, ev, queueVars, mainVars,
                   pair>>

NextMain ==
    \/ MainBegin
    \/ \E k \in Slots, c \in Counts : RemoteAnswers(k, c)
    \/ \E printerOk \in BOOLEAN : MainStart(printerOk)
    \/ Signal
    \/ \E took \in SleepTakes : DrainWake(took)
    \/ \E k \in Slots : Alive /\ Tick(k)
    \/ \E k \in Slots, r \in Responses : Alive /\ FetchFail(k, r)
    \/ \E k \in Slots, r \in Responses : Alive /\ FetchNone(k, r)
    \/ \E k \in Slots, r \in Responses : Alive /\ FetchRejected(k, r)
    \/ \E k \in Slots, r \in Responses : Alive /\ FetchDispatch(k, r)
    \/ \E k \in Slots : Alive /\ LabelPrinted(k)
    \/ \E k \in Slots, ok \in BOOLEAN : Alive /\ BatchEnd(k, ok)

SpecMain == Init /\ [][NextMain]_vars

\* ------------------------------------------------ the two runs side by side
\* both loops poll and receive the same response
PairCycle(r) ==
    /\ fetchLabelCount(r).thrown => pair.a.errors < MaxErrors
    /\ pair' = [pair EXCEPT !.a = pollCycle(@, maxRetries, r),
                            !.b = pollCycle(@, pair.other, r)]
    /\ UNCHANGED <<env, isRunning, isPrinting, consecutiveErrors, lastPollTime,
                   shouldStop, pollTimer, queuePrinting, tasks, ev, queueVars,
                   mainVars>>

NextPair == \E r \in Responses : PairCycle(r)

SpecPair == InitPair /\ [][NextPair]_vars

\* ================================================================ claims
PollEnded == ev.poll \in {"ok", "fail", "skipped"}
MayArm == isRunning /\ ~shouldStop

\* C1: at most one remote fetch is in flight at any time, over any sequence
\* of start(), stop(), timer firings and fetch completions.
C1_OneFetchInFlight == Cardinality(Fetching) <= 1

\* C2: no remote fetch is issued or in flight while a label batch is in
\* progress.
C2_NoFetchWhileBatch == ~(Fetching # {} /\ Printing # {})

\* C3: at most one batch is in progress in every reachable state, also when
\* two dispatches with positive counts are attempted at overlapping times.
C3_OneBatch ==
    /\ Cardinality(Printing) <= 1
    /\ queuePrinting <=> Printing # {}

\* a second dispatch was attempted while a batch was running, and was refused
C3_Witness ==
    /\ ev.op = "fetchRejected"
    /\ Printing # {}
    /\ \E k \in Printing : tasks[k].count >= 2

\* C4: after stop() and until the next start(), no remote fetch is initiated
\* and no tick is scheduled.
C4_QuietAfterStop == ~isRunning => (ev.poll # "issued" /\ ev.sched = 0)

\* C5: at most one scheduled tick is pending, and no tick is pending while a
\* poll or a batch is in progress.
C5_SequentialPolls ==
    /\ Cardinality(Timers) <= 1
    /\ Timers # {} => (Fetching = {} /\ Printing = {})

\* C6: while the service runs and stop() is never called, poll() propagates
\* no error, every poll that ends is followed by a scheduled tick, and polls
\* recur forever.
C6_PollsRecur ==
    /\ [](ev.poll # "threw")
    /\ [](PollEnded => (ev.sched > 0 /\ Timers # {}))
    /\ (isRunning ~> (Fetching # {}))

\* a non-2xx answer after an earlier failure was absorbed and the tick re-armed
C6_Witness ==
    /\ ev.op = "fetchFail"
    /\ ev.err = "http"
    /\ ev.errsBefore >= 1
    /\ ev.sched > 0

ExpectedMultiplier == <<1, 2, 4, 8, 16, 32, 32>>
ExpectedDefault == <<5000, 10000, 20000, 40000, 80000, 160000, 160000>>

\* C7: a poll whose fetch fails, for whatever reason, adds exactly 1 to
\* consecutiveErrors, invokes no print callback, and the next tick is
\* scheduled with the backoff delay of the new counter value (5000 ms after
\* the first failure with the default retry delay).
C7_FetchFailure ==
    ev.op = "fetchFail" =>
        /\ ev.poll = "fail"
        /\ consecutiveErrors = ev.errsBefore + 1
        /\ ~ev.printCalled
        /\ MayArm => /\ ev.sched = retryDelay * ExpectedMultiplier[Min(consecutiveErrors, 7)]
                     /\ tasks[pollTimer].pc = "timer"
                     /\ tasks[pollTimer].delay = ev.sched
                     /\ tasks[pollTimer].errs = consecutiveErrors
        /\ ~MayArm => ev.sched = 0
        /\ (MayArm /\ env.RETRY_DELAY = Unset /\ ev.errsBefore = 0) => ev.sched = 5000

\* a malformed response was the first failure and the tick is at 5000 ms
C7_Witness ==
    /\ ev.op = "fetchFail"
    /\ ev.err = "invalid"
    /\ ev.errsBefore = 0
    /\ env.RETRY_DELAY = Unset
    /\ ev.sched = 5000

\* C8: for n >= 1 consecutive errors the scheduled delay is
\* retryDelay * 2^min(n-1, 5); with retryDelay = 5000 the delays for n = 1..7
\* are 5000 .. 160000, 160000; the delay is non-decreasing in n and never
\* above 32 * retryDelay.
C8_Backoff ==
    /\ \A k \in Timers :
          tasks[k].errs >= 1 =>
             /\ tasks[k].delay = retryDelay * ExpectedMultiplier[Min(tasks[k].errs, 7)]
             /\ tasks[k].delay <= 32 * retryDelay
             /\ env.RETRY_DELAY = Unset =>
                   tasks[k].delay = ExpectedDefault[Min(tasks[k].errs, 7)]
    /\ consecutiveErrors >= 1 =>
          /\ backoffDelay(consecutiveErrors) <= backoffDelay(consecutiveErrors + 1)
          /\ backoffDelay(consecutiveErrors) <= 32 * retryDelay

\* a tick armed after 7 consecutive failures, default retry delay
C8_Witness ==
    \E k \in Timers :
        /\ tasks[k].errs = 7
        /\ tasks[k].delay = 160000
        /\ env.RETRY_DELAY = Unset

\* C9: one successful poll after N >= 1 consecutive failures (also N beyond
\* the backoff cap) sets consecutiveErrors to 0 and the next tick is
\* scheduled at the configured poll interval.
C9_Recovery ==
    ev.poll = "ok" =>
        /\ consecutiveErrors = 0
        /\ MayArm => /\ ev.sched = pollInterval
                     /\ tasks[pollTimer].pc = "timer"
                     /\ tasks[pollTimer].errs = 0
                     /\ tasks[pollTimer].delay = pollInterval
        /\ ~MayArm => ev.sched = 0

\* a successful poll after 7 failures re-armed the tick at the poll interval
C9_Witness ==
    /\ ev.poll = "ok"
    /\ ev.errsBefore >= 7
    /\ consecutiveErrors = 0
    /\ ev.sched = pollInterval
    /\ pollInterval # retryDelay * 32

\* C10: with POLL_INTERVAL not configured, the delay before the next tick
\* when consecutiveErrors = 0 is 15000 ms.
C10_DefaultInterval ==
    env.POLL_INTERVAL = Unset =>
        \A k \in Timers : tasks[k].errs = 0 => tasks[k].delay = 15000

\* C11: when a poll succeeds with count > 0, consecutiveErrors is 0 from the
\* moment the batch dispatch begins, also when the poll followed failures.
C11_ResetBeforeDispatch == ev.op = "fetchDispatch" => consecutiveErrors = 0

\* C12: a batch that fails (label error, validation or busy rejection) never
\* increments consecutiveErrors and never stops the loop: when the dispatch
\* ends isPrinting is false and the next tick is armed as after a success.
C12_PrintFailureAbsorbed ==
    ev.op \in {"batchFailed", "fetchRejected"} =>
        /\ ev.poll = "ok"
        /\ consecutiveErrors <= ev.errsBefore
        /\ consecutiveErrors = 0
        /\ ~isPrinting
        /\ MayArm => /\ ev.sched = pollInterval
                     /\ tasks[pollTimer].pc = "timer"
                     /\ tasks[pollTimer].errs = 0
        /\ ~MayArm => ev.sched = 0

\* a batch failed on a label after an earlier poll failure; the tick is armed
C12_Witness ==
    /\ ev.op = "batchFailed"
    /\ ev.errsBefore >= 1
    /\ ev.sched = pollInterval
    /\ ~isPrinting

\* C16: if label i of a batch of count labels fails, labels 1..i are the only
\* ones attempted, no later label is generated, printLabels reports the
\* failure, and the poll loop arms its next tick as usual.
C16_FailClosed ==
    ev.op = "batchFailed" =>
        /\ ev.attempted \in 1..ev.count
        /\ ev.err = "label"
        /\ Printing = {}
        /\ ~queuePrinting
        /\ MayArm => (ev.sched = pollInterval /\ Timers # {})

\* label 1 of a batch of 2 failed; label 2 was never attempted
C16_Witness ==
    /\ ev.op = "batchFailed"
    /\ ev.attempted = 1
    /\ ev.count = 2
    /\ Printing = {}
    /\ ev.sched = pollInterval

CountResponse(c) ==
    [net |-> "ok", status |-> 200, parses |-> TRUE, type |-> "number", count |-> c]

\* C19: stop() aborts nothing in progress: it leaves every suspended fetch
\* and batch as it was, a fetch in flight can still return and dispatch its
\* batch, and a batch can still print its remaining labels.
C19_StopAbortsNothing ==
    /\ [][ev'.op = "stop" =>
            /\ \A k \in Slots :
                  tasks[k].pc \in {"fetch", "print"} => tasks'[k] = tasks[k]
            /\ isPrinting' = isPrinting
            /\ queuePrinting' = queuePrinting]_vars
    /\ [](\A k \in Fetching :
            ~queuePrinting => ENABLED FetchDispatch(k, CountResponse(1)))
    /\ [](\A k \in Printing :
            ENABLED (LabelPrinted(k) \/ BatchEnd(k, TRUE)))

\* a fetch that was in flight at stop() has dispatched its batch after it
C19_Witness ==
    /\ ~isRunning
    /\ shouldStop
    /\ ev.op = "fetchDispatch"
    /\ ev.count = 2
    /\ Printing # {}

\* C20: a remote response whose count is negative is a poll failure
\* (consecutiveErrors incremented), not a successful poll with zero labels.
C20_NegativeIsFailure ==
    ev.count < 0 => (ev.poll = "fail" /\ consecutiveErrors = ev.errsBefore + 1)

\* the generator.print calls of batch b, in the order they were made
LabelsOf(b) == SelectSeq(printed, LAMBDA p : p.batch = b)

\* C13: a printLabels(count) call with count in 1..500 in which no label
\* fails makes exactly count render+print round trips, each with a freshly
\* generated identifier distinct from the others, in generation order, label
\* i completing before label i+1 is generated.
C13_BatchComplete ==
    /\ printLabelsGuard(MinBatch, FALSE) = "accept"
    /\ printLabelsGuard(MaxBatch, FALSE) = "accept"
    /\ \A i, j \in DOMAIN printed : i < j => printed[i].id # printed[j].id
    /\ \A c \in Callers :
          calls[c].pc = "label" =>
             /\ Len(LabelsOf(calls[c].batch)) = calls[c].current
             /\ calls[c].current <= calls[c].count
    /\ (qev.op = "done" /\ qev.result = "ok") =>
          LET done == LabelsOf(calls[qev.caller].batch)
          IN /\ qev.count \in MinBatch..MaxBatch
             /\ Len(done) = qev.count
             /\ \A i \in DOMAIN done : done[i].label = i
             /\ \A i, j \in DOMAIN done : i < j => done[i].id.uuid < done[j].id.uuid

\* a batch of 2 completed whose two labels drew the same human-readable code
C13_Witness ==
    /\ qev.op = "done"
    /\ qev.result = "ok"
    /\ qev.count = 2
    /\ LET done == LabelsOf(calls[qev.caller].batch)
       IN /\ Len(done) = 2
          /\ done[1].id.humanId = done[2].id.humanId

\* C14: printLabels(count) with count < 1 or count > 500 fails with the
\* validation error, makes no render/print call and leaves the busy flag as
\* it was, also while another batch is in progress.
C14_ValidationRejects ==
    (qev.op = "printLabels" /\ (qev.count < 1 \/ qev.count > 500)) =>
        /\ qev.result = "validation"
        /\ Len(printed) = qev.printedBefore
        /\ queuePrinting = qev.busyBefore
        /\ calls[qev.caller].pc = "idle"

\* printLabels(501) was refused while another caller's batch was running
C14_Witness ==
    /\ qev.op = "printLabels"
    /\ qev.count = 501
    /\ qev.result = "validation"
    /\ qev.busyBefore
    /\ queuePrinting
    /\ \E c \in Callers : calls[c].pc = "label"

\* C15: printLabels with a valid count while another batch is in progress
\* fails at once with 'Already printing' and prints no label of its own; the
\* labels of the running batch are not interleaved with any other call's.
C15_BusyRejects ==
    /\ (qev.op = "printLabels" /\ qev.count \in 1..500 /\ qev.busyBefore) =>
          /\ qev.result = "busy"
          /\ Len(printed) = qev.printedBefore
          /\ calls[qev.caller].pc = "idle"
          /\ queuePrinting
    /\ \A i \in 1..(Len(printed) - 1) :
          \/ /\ printed[i + 1].batch = printed[i].batch
             /\ printed[i + 1].label = printed[i].label + 1
          \/ /\ printed[i + 1].batch = printed[i].batch + 1
             /\ printed[i + 1].label = 1

\* a valid call was refused as busy in the middle of a running batch of 2
C15_Witness ==
    /\ qev.op = "printLabels"
    /\ qev.result = "busy"
    /\ qev.count = 2
    /\ \E c \in Callers :
          calls[c].pc = "label" /\ calls[c].count = 2 /\ calls[c].current = 1

\* C17: when label i of a batch fails, the error printLabels reports to its
\* caller names the failed label i, whatever the cause.
C17_ErrorCitesLabel ==
    qev.result = "failed" => qev.error.label = qev.failedLabel

\* C18: on a stop signal the shutdown handler first stops the poll loop and
\* then exits the process only when getStatus().isPrinting is false or the
\* 60 s grace period has elapsed; it never exits earlier while isPrinting is
\* still true.
C18_DrainBeforeExit ==
    /\ mainPc = "exited" =>
          /\ ~isRunning
          /\ shouldStop
          /\ ~isPrinting \/ (drain = "waiting" /\ elapsed >= 60000)
    /\ drain = "waiting" => (~isRunning /\ shouldStop)

\* the process waited through at least one sleep and left when the batch ended
C18_Witness ==
    /\ mainPc = "exited"
    /\ drain = "waiting"
    /\ elapsed >= 1000
    /\ elapsed < 60000
    /\ ~isPrinting
    /\ ev.op \in {"batchDone", "batchFailed"}

\* C21: a poll invoked while state.isPrinting is true issues no request,
\* invokes no print callback and leaves consecutiveErrors, lastPollTime and
\* isPrinting as they were; its only effect is that the next tick is armed.
C21_SkippedPoll ==
    [][(isPrinting /\ ev'.op \in {"start", "tick"}) =>
          /\ ev'.poll = "skipped"
          /\ ~ev'.printCalled
          /\ Fetching' = Fetching
          /\ Printing' = Printing
          /\ consecutiveErrors' = consecutiveErrors
          /\ lastPollTime' = lastPollTime
          /\ isPrinting' = isPrinting
          /\ queuePrinting' = queuePrinting
          /\ (isRunning' /\ ~shouldStop') =>
                (ev'.sched = backoffDelay(consecutiveErrors) /\ Timers' # {})]_vars

\* a poll was skipped during the batch of the first poll, and the tick armed
C21_Witness ==
    /\ ev.poll = "skipped"
    /\ isPrinting
    /\ Printing # {}
    /\ lastPollTime = 1
    /\ ev.sched > 0
    /\ Timers # {}

\* C22: a successful poll answered with count 0 invokes no print callback,
\* starts no batch and does not touch isPrinting, leaves consecutiveErrors
\* at 0, and the tick it arms is at the base poll interval.
C22_NothingToPrint ==
    /\ [](((ev.op = "fetchNone" \/ ev.poll = "ok") /\ ev.count = 0) =>
            /\ ev.op = "fetchNone"
            /\ ev.poll = "ok"
            /\ ~ev.printCalled
            /\ consecutiveErrors = 0
            /\ MayArm => ev.sched = pollInterval)
    /\ [][(ev'.op = "fetchNone" /\ ev'.count = 0) =>
            /\ isPrinting' = isPrinting
            /\ Printing' = Printing
            /\ queuePrinting' = queuePrinting
            /\ (Printing = {} => ~isPrinting')]_vars

\* a poll answered with 0 after earlier failures, tick armed at the base
\* interval
C22_Witness ==
    /\ ev.op = "fetchNone"
    /\ ev.count = 0
    /\ ev.errsBefore > 0
    /\ ~isPrinting
    /\ ev.sched = pollInterval

\* C23: start() on a stopped service runs one poll at once, on the first
\* start and on every start after a stop(), and a poll that completes while
\* the service is running arms the next tick.
C23_StartPolls ==
    /\ ev.op = "start" =>
          /\ isRunning
          /\ ~shouldStop
          /\ \/ ev.poll = "issued" /\ Cardinality(Fetching) >= 1 /\ lastPollTime >= 1
             \/ ev.poll = "skipped" /\ isPrinting /\ Timers # {}
    /\ (PollEnded /\ isRunning) =>
          /\ ev.sched > 0
          /\ Timers # {}
          /\ pollTimer \in Timers

\* the poll of a start() that followed a stop() has completed and armed the tick
C23_Witness ==
    /\ ev.op = "fetchNone"
    /\ lastPollTime = MaxStamps
    /\ isRunning
    /\ Timers # {}
    /\ Fetching = {}
    /\ Printing = {}
    /\ consecutiveErrors = 0

\* C24: a failed printer check at startup is not fatal: when checkPrinter()
\* has thrown, main() has still started the polling service, and a fetch of
\* the running process that returns a count is still dispatched as a batch.
C24_CheckNotFatal ==
    printerCheck = "thrown" =>
        /\ lastPollTime >= 1
        /\ mainPc \in {"started", "exited"}
        /\ Alive => \A k \in Fetching :
              ~queuePrinting =>
                  \E c \in MinBatch..MaxCount :
                      ENABLED FetchDispatch(k, CountResponse(c))

\* after a failed check a batch has been dispatched and printed
C24_Witness ==
    /\ printerCheck = "thrown"
    /\ mainPc = "started"
    /\ ev.op = "batchDone"
    /\ ev.count >= 1

\* C25: maxRetries is cosmetic: two runs that differ only in maxRetries and
\* receive the same responses go through the same consecutiveErrors values,
\* the same scheduled delays and the same print dispatches; only the
\* "Max retries exceeded" warning can differ.
C25_MaxRetriesCosmetic ==
    /\ pair.a.errors = pair.b.errors
    /\ pair.a.delay = pair.b.delay
    /\ pair.a.dispatched = pair.b.dispatched
    /\ pair.a.outcome = pair.b.outcome
    /\ pair.a.warned = (pair.a.errors >= maxRetries)
    /\ pair.b.warned = (pair.b.errors >= pair.other)

\* one run has logged the warning, the other has not, after the same failures
C25_Witness ==
    /\ pair.other # maxRetries
    /\ pair.a.warned # pair.b.warned
    /\ pair.a.errors >= 2
    /\ pair.a.delay = backoffDelay(pair.a.errors)

\* C26: state.isPrinting is true in every state in which a batch dispatched
\* by the service is still in progress in the print queue; a later dispatch
\* rejected as 'Already printing' does not clear it.
C26_IsPrintingTracksBatch == Printing # {} => isPrinting

\* C27: isBusy() is true exactly while an accepted batch is between its
\* start and its completion: set when printLabels accepts, cleared when the
\* batch ends in success or in failure, and neither set nor cleared by a
\* call that is rejected.
C27_BusyWhileBatch ==
    /\ queuePrinting <=> (\E c \in Callers : calls[c].pc = "label")
    /\ Cardinality({c \in Callers : calls[c].pc = "label"}) <= 1
    /\ (qev.op = "printLabels" /\ qev.result = "accept") =>
          ~qev.busyBefore /\ queuePrinting
    /\ (qev.op = "printLabels" /\ qev.result # "accept") =>
          queuePrinting = qev.busyBefore
    /\ qev.op = "done" => ~queuePrinting

\* a batch has failed at its second label and the queue is free again
C27_Witness ==
    /\ qev.op = "done"
    /\ qev.result = "failed"
    /\ qev.failedLabel = 2
    /\ ~queuePrinting
    /\ \A c \in Callers : calls[c].pc = "idle"

\* C28: every positive count in 1..500 that the remote hands out to a fetch
\* is dispatched to printLabels before the process exits, whenever the stop
\* signal arrives, also during the fetch while isPrinting is still false.
C28_NoCountLost ==
    mainPc = "exited" =>
        \A k \in Slots : ~(tasks[k].pc = "fetch" /\ tasks[k].count \in 1..500)

\* C29: a remote response with a numeric count above 500 is handled as a
\* successful poll: the dispatch is rejected by the print queue's validation
\* and prints no label, consecutiveErrors is 0 afterwards, isPrinting is
\* false again, and the next tick is armed at the base poll interval.
C29_OversizeCount ==
    /\ [](ev.count > MaxBatch =>
            /\ ev.op = "fetchRejected"
            /\ ev.err = "validation"
            /\ ev.poll = "ok"
            /\ ev.printCalled
            /\ consecutiveErrors = 0
            /\ ~isPrinting
            /\ MayArm => (ev.sched = pollInterval /\ Timers # {}))
    /\ [](\A k \in Printing : tasks[k].count <= MaxBatch)
    /\ [][ev'.count > MaxBatch =>
            /\ Printing' = Printing
            /\ queuePrinting' = queuePrinting]_vars

\* a count of 501 arrived after earlier failures; the counter is back at 0
C29_Witness ==
    /\ ev.op = "fetchRejected"
    /\ ev.count = MaxBatch + 1
    /\ ev.errsBefore > 0
    /\ consecutiveErrors = 0
    /\ ~isPrinting
    /\ ev.sched = pollInterval

\* C30: start() on a service that is already running is a no-op: it issues
\* no fetch, arms no tick and changes no field of the poll state.
C30_StartWhileRunning ==
    [][ev'.op = "startAgain" =>
          /\ isRunning
          /\ tasks' = tasks
          /\ pollTimer' = pollTimer
          /\ isRunning' = isRunning
          /\ isPrinting' = isPrinting
          /\ consecutiveErrors' = consecutiveErrors
          /\ lastPollTime' = lastPollTime
          /\ shouldStop' = shouldStop
          /\ queuePrinting' = queuePrinting
          /\ ev'.poll = "none"
          /\ ev'.sched = 0]_vars

\* start() was called while the first poll's fetch was in flight
C30_Witness ==
    /\ ev.op = "startAgain"
    /\ isRunning
    /\ Cardinality(Fetching) = 1
    /\ Timers = {}
    /\ lastPollTime = 1

====
